---- MODULE Spec2Model ----
(***************************************************************************)
(* Model of the ai-itsm ticket classification service                      *)
(* (app/api/classify-ticket/route.ts, the SQL helpers it calls, and        *)
(* app/api/chat/route.ts).                                                 *)
(*                                                                         *)
(*   Spec            one classify-ticket request after another against a   *)
(*                   historical ticket store: POST, classifyWithOpenAI,    *)
(*                   findSimilarTickets, determineFinalRecommendation.     *)
(*   SpecReconciler  determineFinalRecommendation alone, applied to every  *)
(*                   pattern result and every similarity list of the       *)
(*                   bounded input sets.                                   *)
(*   SpecTally       the match_tickets call and the tally of its rows      *)
(*                   alone, on every store of embedded rows.               *)
(*   SpecChat        one chat request after another (app/api/chat/         *)
(*                   route.ts): translation, conversational phrases, FAQ   *)
(*                   lookup, classifyTicket, completion, session log.      *)
(*   SpecImport      one import request (app/api/import-tickets/route.ts): *)
(*                   POST, processRequest and the events of its stream.    *)
(*   SpecBackfill    one update-embeddings call after another (app/api/    *)
(*                   update-embeddings/route.ts, POST and GET);            *)
(*                   FairSpecBackfill adds that a call in progress goes on.*)
(*   SpecHealing     the extension and column steps of several calls of    *)
(*                   findSimilarTickets and update-embeddings, interleaved.*)
(***************************************************************************)
EXTENDS Integers, Sequences, FiniteSets, TLC

VARIABLES
    tickets,               \* rows of ticket_history: [assigned_group, embedding]
    extension,             \* the pgvector extension is installed
    column,                \* ticket_history has the embedding column
    pc,                    \* position of the request inside POST / findSimilarTickets
    openAIClassification,  \* what classifyWithOpenAI returned to POST
    vectorResults,         \* what findSimilarTickets returned to POST
    response,              \* the HTTP response of the request
    completions,           \* chat.completions.create calls of classifyWithOpenAI
                           \* in this request
    conversations,         \* chat route: the log of each session
    chatPc,                \* chat route: position of the request inside POST
    chatRequest,           \* chat route: sessionId, message and translatedText
    invoked,               \* chat route: the helpers this request has called
    ticketClassification,  \* chat route: what classifyTicket returned
    chatResponse,          \* chat route: the HTTP response of the request
    importPc,              \* import route: position inside POST / processRequest
    upload,                \* import route: the request and the rows of its file
    counters,              \* import route: i, total, processed, successful, failed
    stream,                \* import route: the events written to the response
    writerClosed,          \* import route: writer.close() has been called
    inserted,              \* import route: rows of the file stored in
                           \* ticket_history, by row number
    bfPc,                  \* update-embeddings: position inside POST / GET
    bfMethod,              \* update-embeddings: "POST" or "GET"
    selected,              \* update-embeddings: ids of the rows the query returned
    results,               \* update-embeddings: the results array
    bfResponse,            \* update-embeddings: the HTTP response of the call
    failures,              \* update-embeddings: provider and store calls that
                           \* have failed so far
    callers                \* SpecHealing: the schema before the calls, and the
                           \* position and effects of each call

\* the state of the chat route
chat == <<conversations, chatPc, chatRequest, invoked, ticketClassification, chatResponse>>

\* the state of the classify-ticket route
classify == <<tickets, extension, column, pc, openAIClassification, vectorResults,
              response, completions>>

\* the state of the import route
importer == <<importPc, upload, counters, stream, writerClosed, inserted>>

\* the state of the update-embeddings route
backfill == <<bfPc, bfMethod, selected, results, bfResponse, failures>>

\* the state of the routes added to the first two
elsewhere == <<importer, backfill, callers>>

\* the state of a classify-ticket request
request == <<pc, openAIClassification, vectorResults, response, completions>>

vars == <<classify, chat, elsewhere>>

store == <<tickets, extension, column>>

-----------------------------------------------------------------------------
(* Bounds of the model *)

\* largest number of rows of ticket_history
MaxTickets == 3

\* longest similarity list handed to the reconciler in SpecReconciler
MaxResults == 2

\* largest number of rows of ticket_history in SpecTally
MaxHistory == 6

-----------------------------------------------------------------------------
(* Values *)

NULL == "null"

\* the names of the fixed taxonomy
supportGroups ==
    { "Network Operations", "Desktop Support", "Application Support",
      "Email & Collaboration", "Security", "Database Administration",
      "Server Operations" }

\* Group names the generative provider may put in primaryGroup.name: the
\* parsed JSON is returned as it is, so a name outside the taxonomy is possible.
PatternNames == { "Security", "Network Operations", "Help Desk" }

\* Confidences the provider may put in primaryGroup.confidence: the prompt asks
\* for 0-100 but the parsed number is not checked.
PatternConfidences == { 0, 50, 68, 80, 100, 150 }

PatternReasonings == { "mentions a firewall", "mentions a login" }

\* assigned_group labels of historical tickets: free text of the imported file
HistoryLabels == { "Security", "Network Operations", "Legacy Team" }

\* confidences and counts of the similarity entries of SpecReconciler
SimConfidences == { 20, 33, 70, 71, 100 }

SimCounts == { 1, 3 }

Min(a, b) == IF a <= b THEN a ELSE b

-----------------------------------------------------------------------------
(* Arithmetic of the route, as evaluated on IEEE-754 doubles *)

\* The pairs (pattern confidence, entry confidence), for the pattern
\* confidences of this model, at which the double  p * 0.7 + s * 0.3  lies just
\* below the exact tie  k + 0.5  (68 * 0.7 = 47.599999999999994,
\* 33 * 0.3 = 9.9, sum 57.49999999999999).
DoubleBelowTie(p, s) == p = 68 /\ s \in { 3, 13, 23, 33, 43, 53 }

\* Math.round(p * 0.4 + s * 0.6): the exact value is never a tie (4p + 6s is
\* even) and the double rounds like the exact value.
RoundCombined(p, s) == (4 * p + 6 * s + 5) \div 10

\* Math.round(p * 0.7 + s * 0.3): Math.round takes ties upwards, but at the
\* pairs of DoubleBelowTie the double is below the tie and rounds downwards.
RoundPatternWeighted(p, s) ==
    IF (7 * p + 3 * s) % 10 = 5 /\ DoubleBelowTie(p, s)
    THEN (7 * p + 3 * s + 5) \div 10 - 1
    ELSE (7 * p + 3 * s + 5) \div 10

\* RoundShare with Math.floor in place of Math.round
RoundShareFloor(count, totalMatches) == (100 * count) \div totalMatches

\* Math.round((count / totalMatches) * 100), totalMatches >= 1
RoundShare(count, totalMatches) ==
    (200 * count + totalMatches) \div (2 * totalMatches)

-----------------------------------------------------------------------------
(* determineFinalRecommendation *)

\* reasoning texts, by their construction
Verbatim(r)          == [kind |-> "pattern", text |-> r, count |-> 0]
AgreeReasoning(n)    == [kind |-> "both-agree", text |-> "", count |-> n]
PartialReasoning(n)  == [kind |-> "some-support", text |-> "", count |-> n]
HistoryReasoning(n)  == [kind |-> "history", text |-> "", count |-> n]
NotedReasoning(r)    == [kind |-> "pattern-with-note", text |-> r, count |-> 0]

Recommendation(g, c, s, r) ==
    [group |-> g, confidence |-> c, source |-> s, reasoning |-> r]

\* PatternOnly with the cap of the default rule applied as well
PatternOnlyCapped(openAIResult) ==
    Recommendation(openAIResult.primaryGroup.name,
                   Min(openAIResult.primaryGroup.confidence, 70),
                   "pattern-based",
                   Verbatim(openAIResult.primaryGroup.reasoning))

\* no vector results: the OpenAI classification as it is
PatternOnly(openAIResult) ==
    Recommendation(openAIResult.primaryGroup.name,
                   openAIResult.primaryGroup.confidence,
                   "pattern-based",
                   Verbatim(openAIResult.primaryGroup.reasoning))

\* Combined with the two weights exchanged
CombinedWeightsSwapped(openAIResult, vectorResults_) ==
    Recommendation(openAIResult.primaryGroup.name,
                   RoundCombined(vectorResults_[1].confidence,
                                 openAIResult.primaryGroup.confidence),
                   "combined",
                   AgreeReasoning(vectorResults_[1].count))

\* both methods have the same top recommendation
Combined(openAIResult, vectorResults_) ==
    Recommendation(openAIResult.primaryGroup.name,
                   RoundCombined(openAIResult.primaryGroup.confidence,
                                 vectorResults_[1].confidence),
                   "combined",
                   AgreeReasoning(vectorResults_[1].count))

\* vectorResults.find(r => r.name === openAIPrimary): index of the first entry
\* with that name, 0 when there is none
FindIndex(vectorResults_, openAIPrimary) ==
    LET hits == { i \in 1..Len(vectorResults_) : vectorResults_[i].name = openAIPrimary }
    IN  IF hits = {} THEN 0 ELSE CHOOSE i \in hits : \A j \in hits : i <= j

\* OpenAI's suggestion is in the vector results but is not the top one
PatternWeighted(openAIResult, matchingVectorResult) ==
    Recommendation(openAIResult.primaryGroup.name,
                   RoundPatternWeighted(openAIResult.primaryGroup.confidence,
                                        matchingVectorResult.confidence),
                   "pattern-weighted",
                   PartialReasoning(matchingVectorResult.count))

\* StrongHistory with >= in place of >
StrongHistoryAtLeast(vectorResults_) == vectorResults_[1].confidence >= 70

\* vectorResults[0].confidence > 70
StrongHistory(vectorResults_) == vectorResults_[1].confidence > 70

\* HistoryWeighted with a source tag outside the four
HistoryWeightedOtherTag(vectorResults_) ==
    Recommendation(vectorResults_[1].name,
                   vectorResults_[1].confidence,
                   "history-based",
                   HistoryReasoning(vectorResults_[1].count))

\* the vector results have strong confidence and OpenAI disagrees
\* HistoryWeighted with the confidence capped at 90
HistoryWeightedCapped(vectorResults_) ==
    Recommendation(vectorResults_[1].name,
                   Min(vectorResults_[1].confidence, 90),
                   "history-weighted",
                   HistoryReasoning(vectorResults_[1].count))

HistoryWeighted(vectorResults_) ==
    Recommendation(vectorResults_[1].name,
                   vectorResults_[1].confidence,
                   "history-weighted",
                   HistoryReasoning(vectorResults_[1].count))

\* PatternCapped without the cap
PatternUncapped(openAIResult) ==
    Recommendation(openAIResult.primaryGroup.name,
                   openAIResult.primaryGroup.confidence,
                   "pattern-based",
                   NotedReasoning(openAIResult.primaryGroup.reasoning))

\* default: OpenAI with the confidence capped at 70
PatternCapped(openAIResult) ==
    Recommendation(openAIResult.primaryGroup.name,
                   Min(openAIResult.primaryGroup.confidence, 70),
                   "pattern-based",
                   NotedReasoning(openAIResult.primaryGroup.reasoning))

\* a parsed response with a primaryGroup object; without one, reading
\* openAIResult.primaryGroup.name is a TypeError
HasPrimaryGroup(openAIResult) == openAIResult.shape \in { "classification", "incomplete" }

determineFinalRecommendation(openAIResult, vectorResults_) ==
    IF Len(vectorResults_) = 0
    THEN PatternOnly(openAIResult)
    ELSE IF openAIResult.primaryGroup.name = vectorResults_[1].name
    THEN Combined(openAIResult, vectorResults_)
    ELSE IF FindIndex(vectorResults_, openAIResult.primaryGroup.name) # 0
    THEN PatternWeighted(openAIResult,
             vectorResults_[FindIndex(vectorResults_, openAIResult.primaryGroup.name)])
    ELSE IF StrongHistory(vectorResults_)
    THEN HistoryWeighted(vectorResults_)
    ELSE PatternCapped(openAIResult)

-----------------------------------------------------------------------------
(* classifyWithOpenAI *)

\* alternativeGroups lists the provider may return: the prompt shows two
\* groups other than the primary one, the parsed list is not checked
AlternativeLists ==
    { << [name |-> "Desktop Support"], [name |-> "Application Support"] >>,
      << [name |-> "Security"], [name |-> "Desktop Support"],
         [name |-> "Application Support"] >> }

\* JSON.parse(content) of a response that has the requested structure
Classifications ==
    [ shape : {"classification"},
      primaryGroup : [ name : PatternNames,
                       confidence : PatternConfidences,
                       reasoning : PatternReasonings ],
      alternativeGroups : AlternativeLists ]

\* a property that the parsed JSON does not have
UNDEFINED == "undefined"

\* JSON.parse(content) of {"primaryGroup": {"name": "Security", "confidence": 80}}:
\* a primaryGroup without reasoning, and no alternativeGroups
IncompleteJSON ==
    [ shape |-> "incomplete",
      primaryGroup |-> [ name |-> "Security", confidence |-> 80, reasoning |-> UNDEFINED ],
      alternativeGroups |-> UNDEFINED ]

\* JSON.parse(content) of valid JSON without a primaryGroup, such as {}
OtherJSON == [shape |-> "other"]

NoClassification == [shape |-> "none"]

\* every value classifyWithOpenAI can return: JSON.parse accepts any JSON text
ParsedResponses == Classifications \cup {IncompleteJSON, OtherJSON}

-----------------------------------------------------------------------------
(* findSimilarTickets *)

\* match_count of the match_tickets call
match_count == 5

\* Failure without its error reason
FailureWithoutReason(reason) ==
    [success |-> FALSE, error |-> "", results |-> <<>>, similarTickets |-> <<>>]

\* the failure outcome of findSimilarTickets
Failure(reason) ==
    [success |-> FALSE, error |-> reason, results |-> <<>>, similarTickets |-> <<>>]

NoOutcome == [success |-> FALSE, error |-> "not run", results |-> <<>>, similarTickets |-> <<>>]

\* match_threshold of the match_tickets call, 0.5, in hundredths
match_threshold == 50

\* 1 - cosine distance between a row and the query embedding, in hundredths
Similarities == { 50, 80 }

\* rows match_tickets can select: embedding and assigned_group both non-null
Eligible(rows) ==
    { i \in 1..Len(rows) : rows[i].embedding /\ rows[i].assigned_group # NULL }

\* ORDER BY distance LIMIT n over the rows of ids: every list of the n
\* nearest rows, nearest first; rows at the same distance come in any order
RECURSIVE NearestFirst(_, _, _)
NearestFirst(ids, similarity, n) ==
    IF n = 0 \/ ids = {} THEN { <<>> }
    ELSE UNION { { <<i>> \o rest : rest \in NearestFirst(ids \ {i}, similarity, n - 1) } :
                    i \in { j \in ids : \A k \in ids : similarity[j] >= similarity[k] } }

\* match_tickets: the eligible rows whose similarity to the query is above
\* match_threshold, nearest first, at most match_count of them
match_tickets(rows, similarity) ==
    LET passing == { i \in Eligible(rows) : similarity[i] > match_threshold }
    IN  { [k \in DOMAIN f |-> [id |-> f[k],
                               assigned_group |-> rows[f[k]].assigned_group,
                               similarity |-> similarity[f[k]]]] :
              f \in NearestFirst(passing, similarity, match_count) }

\* assigned_group labels that are array indices ("42"): as property names of
\* an object they are enumerated before the other names, in ascending order
ArrayIndex(name) == CASE name = "7" -> 7 [] name = "42" -> 42 [] OTHER -> -1

\* similarTickets.forEach: the properties of groupCounts in the order they
\* were created
RECURSIVE groupCounts(_, _)
groupCounts(similarTickets, acc) ==
    IF similarTickets = <<>> THEN acc
    ELSE LET g == Head(similarTickets).assigned_group
         IN  IF g = NULL
             THEN groupCounts(Tail(similarTickets), acc)
             ELSE IF \E i \in 1..Len(acc) : acc[i].name = g
             THEN groupCounts(Tail(similarTickets),
                      [i \in 1..Len(acc) |->
                          IF acc[i].name = g
                          THEN [acc[i] EXCEPT !.count = @ + 1]
                          ELSE acc[i]])
             ELSE groupCounts(Tail(similarTickets),
                      Append(acc, [name |-> g, count |-> 1]))

\* insert e into a list of array-index names in ascending order
RECURSIVE InsertByIndex(_, _)
InsertByIndex(e, sorted) ==
    IF sorted = <<>> THEN <<e>>
    ELSE IF ArrayIndex(Head(sorted).name) <= ArrayIndex(e.name)
         THEN <<Head(sorted)>> \o InsertByIndex(e, Tail(sorted))
         ELSE <<e>> \o sorted

RECURSIVE SortByIndex(_)
SortByIndex(list) ==
    IF list = <<>> THEN <<>>
    ELSE InsertByIndex(Head(list), SortByIndex(Tail(list)))

\* ObjectEntries that lists every property in creation order
ObjectEntriesInCreationOrder(counts) == counts

\* Object.entries(groupCounts): array-index names first, ascending, then the
\* other names in creation order
ObjectEntries(counts) ==
    LET IsIndex(e) == ArrayIndex(e.name) >= 0
        IsName(e)  == ArrayIndex(e.name) < 0
    IN  SortByIndex(SelectSeq(counts, IsIndex)) \o SelectSeq(counts, IsName)

totalMatches(similarTickets) ==
    Cardinality({ i \in 1..Len(similarTickets) : similarTickets[i].assigned_group # NULL })

\* one entry per group: its share of the matches, rounded
groupConfidence(similarTickets) ==
    LET counts == ObjectEntries(groupCounts(similarTickets, <<>>))
    IN  [i \in 1..Len(counts) |->
            [name       |-> counts[i].name,
             confidence |-> RoundShare(counts[i].count, totalMatches(similarTickets)),
             count      |-> counts[i].count]]

\* insert e into a list sorted by confidence descending, after its equals
RECURSIVE InsertByConfidence(_, _)
InsertByConfidence(e, sorted) ==
    IF sorted = <<>> THEN <<e>>
    ELSE IF Head(sorted).confidence >= e.confidence
         THEN <<Head(sorted)>> \o InsertByConfidence(e, Tail(sorted))
         ELSE <<e>> \o sorted

\* groupConfidence.sort((a, b) => b.confidence - a.confidence): stable
RECURSIVE SortByConfidence(_)
SortByConfidence(list) ==
    IF list = <<>> THEN <<>>
    ELSE InsertByConfidence(list[Len(list)], SortByConfidence(SubSeq(list, 1, Len(list) - 1)))

\* the success outcome of findSimilarTickets
Success(similarTickets) ==
    [success |-> TRUE, error |-> "",
     results |-> SortByConfidence(groupConfidence(similarTickets)),
     similarTickets |-> similarTickets]

-----------------------------------------------------------------------------
(* The chat route while no chat request is in progress *)

NoResponse == [status |-> 0]

\* the JavaScript value null
JSNull == [null |-> TRUE]

IsNull(v) == "null" \in DOMAIN v

NoChatRequest == [sessionId |-> "", message |-> "", translatedText |-> ""]

\* sessionId values of the chat requests
Sessions == { "s1" }

\* no session has a log yet (a session without a key has the log << >>) and
\* no chat request is being handled
ChatAtRest ==
    /\ conversations = [s \in Sessions |-> <<>>]
    /\ chatPc = "idle"
    /\ chatRequest = NoChatRequest
    /\ invoked = {}
    /\ ticketClassification = JSNull
    /\ chatResponse = NoResponse

-----------------------------------------------------------------------------
(* The import route while no import request is in progress *)

NoUpload == [kind |-> "none"]

NoCounters == [i |-> 0, total |-> 0, processed |-> 0, successful |-> 0, failed |-> 0]

ImportAtRest ==
    /\ importPc = "idle"
    /\ upload = NoUpload
    /\ counters = NoCounters
    /\ stream = <<>>
    /\ writerClosed = FALSE
    /\ inserted = {}

\* no update-embeddings call is in progress
BackfillAtRest ==
    /\ bfPc = "idle"
    /\ bfMethod = "none"
    /\ selected = <<>>
    /\ results = <<>>
    /\ bfResponse = NoResponse
    /\ failures = 0

HealingAtRest == callers = << >>

\* the routes other than classify-ticket are at rest
AtRest == ChatAtRest /\ ImportAtRest /\ BackfillAtRest /\ HealingAtRest

-----------------------------------------------------------------------------
(* POST /api/classify-ticket, one request at a time *)

ErrorResponse(status, message) == [status |-> status, error |-> message]

\* findSimilarTickets returns outcome to POST
ReturnOutcome(outcome) ==
    /\ vectorResults' = outcome
    /\ pc' = "combine"
    /\ UNCHANGED <<store, openAIClassification, response, completions, chat, elsewhere>>

\* inside findSimilarTickets, go on to the next check
Goto(next) ==
    /\ pc' = next
    /\ UNCHANGED <<store, openAIClassification, vectorResults, response, completions, chat, elsewhere>>

\* the request arrives; without a subject it is answered 400
POST_Request ==
    /\ pc = "idle"
    /\ \E hasSubject \in BOOLEAN :
          IF hasSubject
          THEN /\ pc' = "classifyWithOpenAI"
               /\ UNCHANGED response
          ELSE /\ pc' = "responded"
               /\ response' = ErrorResponse(400, "Subject is required")
    /\ UNCHANGED <<store, openAIClassification, vectorResults, completions, chat, elsewhere>>

\* classifyWithOpenAI whose caller goes on to the reconciler without awaiting
\* the similarity search
classifyWithOpenAIThenCombine ==
    /\ pc = "classifyWithOpenAI"
    /\ \E parsed \in ParsedResponses : openAIClassification' = parsed
    /\ pc' = "combine"
    /\ completions' = completions + 1
    /\ UNCHANGED <<store, vectorResults, response, chat, elsewhere>>

\* classifyWithOpenAI: the completion call fails, has no content or content
\* that is not JSON (all rethrown, POST answers 500), or JSON.parse returns
classifyWithOpenAI ==
    /\ pc = "classifyWithOpenAI"
    /\ \/ /\ \E message \in { "provider error", "No response from OpenAI",
                              "Failed to parse classification response" } :
                response' = ErrorResponse(500, message)
          /\ pc' = "responded"
          /\ UNCHANGED openAIClassification
       \/ /\ \E parsed \in ParsedResponses : openAIClassification' = parsed
          /\ pc' = "checkTable"
          /\ UNCHANGED response
    /\ completions' = completions + 1
    /\ UNCHANGED <<store, vectorResults, chat, elsewhere>>

\* select count from ticket_history
CheckTable ==
    /\ pc = "checkTable"
    /\ \/ ReturnOutcome(Failure("Ticket history table not accessible"))
       \/ /\ Len(tickets) = 0
          /\ ReturnOutcome(Failure("No historical tickets available"))
       \/ /\ Len(tickets) # 0
          /\ Goto("checkExtension")

\* rpc check_vector_extension: only the error of the call is read, the
\* boolean it returns is not
CheckExtension ==
    /\ pc = "checkExtension"
    /\ \/ Goto("createExtension")
       \/ Goto("checkColumn")

\* CreateExtension followed by a second check of the extension
CreateExtensionAndRecheck ==
    /\ pc = "createExtension"
    /\ extension' = TRUE
    /\ pc' = "checkExtension"
    /\ UNCHANGED <<tickets, column, openAIClassification, vectorResults, response,
                   completions, chat, elsewhere>>

\* rpc create_vector_extension: CREATE EXTENSION IF NOT EXISTS; the call is
\* awaited without reading its error, only an exception ends the search
CreateExtension ==
    /\ pc = "createExtension"
    /\ \/ /\ extension' = TRUE
          /\ pc' = "checkColumn"
          /\ UNCHANGED <<tickets, column, openAIClassification, vectorResults, response,
                      completions, chat, elsewhere>>
       \/ Goto("checkColumn")
       \/ ReturnOutcome(Failure("Vector extension not available"))

\* rpc check_embedding_column: again only the error of the call is read
CheckColumn ==
    /\ pc = "checkColumn"
    /\ \/ Goto("addColumn")
       \/ Goto("checkEmbeddings")

\* rpc add_embedding_column: ALTER TABLE ADD COLUMN IF NOT EXISTS embedding
\* vector(1536), which needs the extension; its error is not read either
AddColumn ==
    /\ pc = "addColumn"
    /\ \/ /\ extension
          /\ column' = TRUE
          /\ pc' = "checkEmbeddings"
          /\ UNCHANGED <<tickets, extension, openAIClassification, vectorResults, response,
                      completions, chat, elsewhere>>
       \/ Goto("checkEmbeddings")
       \/ ReturnOutcome(Failure("Embedding column could not be created"))

\* CheckEmbeddings that goes on when the store has any row
CheckEmbeddingsAnyRow ==
    /\ pc = "checkEmbeddings"
    /\ \/ ReturnOutcome(Failure("Could not check for embeddings"))
       \/ /\ column
          /\ Len(tickets) = 0
          /\ ReturnOutcome(Failure("No tickets with embeddings"))
       \/ /\ column
          /\ Len(tickets) > 0
          /\ Goto("generateEmbedding")

\* select id where embedding is not null limit 1
CheckEmbeddings ==
    /\ pc = "checkEmbeddings"
    /\ \/ ReturnOutcome(Failure("Could not check for embeddings"))
       \/ /\ column
          /\ \A i \in 1..Len(tickets) : ~tickets[i].embedding
          /\ ReturnOutcome(Failure("No tickets with embeddings"))
       \/ /\ column
          /\ \E i \in 1..Len(tickets) : tickets[i].embedding
          /\ Goto("generateEmbedding")

\* generateEmbedding that also stores an embedding in the first row
generateEmbeddingAndStore ==
    /\ pc = "generateEmbedding"
    /\ pc' = "matchTickets"
    /\ tickets' = [tickets EXCEPT ![1].embedding = ~@]
    /\ UNCHANGED <<extension, column, openAIClassification, vectorResults, response,
                   completions, chat, elsewhere>>

\* openai.embeddings.create succeeds; its failure is one case of OuterCatch
generateEmbedding ==
    /\ pc = "generateEmbedding"
    /\ Goto("matchTickets")

\* rpc match_tickets and the tally of its rows
MatchTickets ==
    /\ pc = "matchTickets"
    /\ \/ ReturnOutcome(Failure("message of the match_tickets error"))
       \/ ReturnOutcome(Failure("Vector similarity search failed"))
       \/ /\ extension /\ column
          /\ \E similarity \in [Eligible(tickets) -> Similarities] :
                \E similarTickets \in match_tickets(tickets, similarity) :
                   ReturnOutcome(Success(similarTickets))

\* an awaited call outside the inner try blocks throws: the outer catch
OuterCatch ==
    /\ pc \in { "checkTable", "checkExtension", "checkColumn", "checkEmbeddings",
                "generateEmbedding" }
    /\ ReturnOutcome(Failure("General error in vector similarity search"))

\* CombinedResponse that answers 500 when the similarity search failed
CombinedResponseOnSuccessOnly(openAIResult, outcome) ==
    IF outcome.success
    THEN [status |-> 200,
          patternBasedClassification |-> openAIResult,
          vectorSimilarityClassification |->
              [recommendations     |-> outcome.results,
               similarTicketsCount |-> Len(outcome.similarTickets),
               confidence          |-> IF Len(outcome.results) > 0
                                       THEN outcome.results[1].confidence
                                       ELSE 0,
               success             |-> outcome.success,
               error               |-> outcome.error],
          finalRecommendation |-> determineFinalRecommendation(openAIResult, outcome.results)]
    ELSE [status |-> 500, error |-> outcome.error]

\* the body POST answers with
CombinedResponse(openAIResult, outcome) ==
    [status |-> 200,
     patternBasedClassification |-> openAIResult,
     vectorSimilarityClassification |->
         [recommendations     |-> outcome.results,
          similarTicketsCount |-> Len(outcome.similarTickets),
          confidence          |-> IF Len(outcome.results) > 0
                                  THEN outcome.results[1].confidence
                                  ELSE 0,
          success             |-> outcome.success,
          error               |-> outcome.error],
     finalRecommendation |-> determineFinalRecommendation(openAIResult, outcome.results)]

\* step 3 of POST; a TypeError of the reconciler is caught and answered 500
POST_Combine ==
    /\ pc = "combine"
    /\ response' = IF HasPrimaryGroup(openAIClassification)
                   THEN CombinedResponse(openAIClassification, vectorResults)
                   ELSE ErrorResponse(500, "Failed to classify ticket: TypeError")
    /\ pc' = "responded"
    /\ UNCHANGED <<store, openAIClassification, vectorResults, completions, chat, elsewhere>>

\* the client sends its next request
NextRequest ==
    /\ pc = "responded"
    /\ pc' = "idle"
    /\ openAIClassification' = NoClassification
    /\ vectorResults' = NoOutcome
    /\ response' = NoResponse
    /\ completions' = 0
    /\ UNCHANGED <<store, chat, elsewhere>>

\* rows of ticket_history; an embedding needs the column, the column the
\* extension.  Of a row without an embedding the search reads nothing, so
\* such rows take one label or none.
TicketRows(hasColumn) ==
    { r \in [ assigned_group : HistoryLabels \cup {NULL},
              embedding : IF hasColumn THEN BOOLEAN ELSE {FALSE} ] :
          ~r.embedding => r.assigned_group \in { NULL, "Security" } }

Init ==
    /\ extension \in BOOLEAN
    /\ column \in { c \in BOOLEAN : c => extension }
    /\ tickets \in UNION { [1..n -> TicketRows(column)] : n \in 0..MaxTickets }
    /\ pc = "idle"
    /\ openAIClassification = NoClassification
    /\ vectorResults = NoOutcome
    /\ response = NoResponse
    /\ completions = 0
    /\ AtRest

Next ==
    \/ POST_Request
    \/ classifyWithOpenAI
    \/ CheckTable
    \/ CheckExtension
    \/ CreateExtension
    \/ CheckColumn
    \/ AddColumn
    \/ CheckEmbeddings
    \/ generateEmbedding
    \/ MatchTickets
    \/ OuterCatch
    \/ POST_Combine
    \/ NextRequest

Spec == Init /\ [][Next]_vars

-----------------------------------------------------------------------------
(* The reconciler on its own *)

\* similarity entries and lists of the bounded input set
SimEntries == [ name : HistoryLabels, confidence : SimConfidences, count : SimCounts ]

SimLists == UNION { [1..n -> SimEntries] : n \in 0..MaxResults }

InitReconciler ==
    /\ tickets = <<>>
    /\ extension = TRUE
    /\ column = TRUE
    /\ pc = "reconcile"
    /\ openAIClassification \in Classifications
    /\ \E list \in SimLists :
          vectorResults = [success |-> TRUE, error |-> "", results |-> list,
                           similarTickets |-> <<>>]
    /\ response = NoResponse
    /\ completions = 1
    /\ AtRest

\* determineFinalRecommendation applied to the inputs
Reconcile ==
    /\ pc = "reconcile"
    /\ response' = [status |-> 200,
                    finalRecommendation |->
                        determineFinalRecommendation(openAIClassification,
                                                     vectorResults.results)]
    /\ pc' = "reconciled"
    /\ UNCHANGED <<store, openAIClassification, vectorResults, completions, chat, elsewhere>>

NextReconciler == Reconcile

SpecReconciler == InitReconciler /\ [][NextReconciler]_vars

-----------------------------------------------------------------------------
(* The neighbour search and its tally on their own *)

\* assigned_group labels of the rows of SpecTally
TallyLabels == { "Security", "42" }

TallyRows == [ assigned_group : TallyLabels, embedding : {TRUE} ]

\* a request whose search has reached the match_tickets call, for every store
\* of embedded rows
InitTally ==
    /\ extension = TRUE
    /\ column = TRUE
    /\ tickets \in UNION { [1..n -> TallyRows] : n \in 0..MaxHistory }
    /\ pc = "matchTickets"
    /\ openAIClassification =
           [ shape |-> "classification",
             primaryGroup |-> [ name |-> "Security", confidence |-> 80,
                                reasoning |-> "mentions a firewall" ],
             alternativeGroups |-> << [name |-> "Desktop Support"],
                                      [name |-> "Application Support"] >> ]
    /\ vectorResults = NoOutcome
    /\ response = NoResponse
    /\ completions = 1
    /\ AtRest

NextTally == MatchTickets

SpecTally == InitTally /\ [][NextTally]_vars

-----------------------------------------------------------------------------
(* POST /api/chat, one request at a time *)

\* the log keeps its first entry and the last KeptTurns when it has grown
\* beyond MaxLogLength
MaxLogLength == 11

KeptTurns == 10

\* message texts of the chat requests, and of the translations
Messages ==
    { "hello",
      "vpn is not working since this morning",
      "what are the office hours" }

\* isLikelyTicket on the texts of Messages: "not working" is a ticket phrase,
\* the other two texts contain none
isLikelyTicket(message) == message = "vpn is not working since this morning"

\* isConversationalPhrase on the texts of Messages: "hello" is in the list,
\* the other two texts are longer than every phrase they contain plus 15
isConversationalPhrase(message) == message = "hello"

\* entries of a log: the role and which value of the request the content is
SystemTurn == [role |-> "system", content |-> "system prompt"]

UserTurn == [role |-> "user", content |-> "message"]

AssistantTurn(content) == [role |-> "assistant", content |-> content]

\* Truncate that keeps the last KeptTurns entries without the first one
TruncateWithoutSystemTurn(log) ==
    IF Len(log) > MaxLogLength
    THEN SubSeq(log, Len(log) - KeptTurns + 1, Len(log))
    ELSE log

\* [log[0], ...log.slice(log.length - 10)] when log.length > 11
Truncate(log) ==
    IF Len(log) > MaxLogLength
    THEN <<log[1]>> \o SubSeq(log, Len(log) - KeptTurns + 1, Len(log))
    ELSE log

\* the log of the session of the request in progress
Log == conversations[chatRequest.sessionId]

SetLog(log) == conversations' = [conversations EXCEPT ![chatRequest.sessionId] = log]

\* bodies /api/classify-ticket can answer a chat message with: the pattern
\* result reconciled with a similarity search that found no history
ClassifyReplies ==
    { CombinedResponse(c, Failure("No historical tickets available")) :
          c \in { k \in Classifications :
                     /\ k.primaryGroup.name = "Network Operations"
                     /\ k.primaryGroup.confidence = 80
                     /\ k.primaryGroup.reasoning = "mentions a firewall" } }

\* finalRecommendation with the alternative groups of the pattern result
EnhancedClassification(classification) ==
    IF IsNull(classification)
    THEN JSNull
    ELSE [ group             |-> classification.finalRecommendation.group,
           confidence        |-> classification.finalRecommendation.confidence,
           source            |-> classification.finalRecommendation.source,
           reasoning         |-> classification.finalRecommendation.reasoning,
           alternativeGroups |-> classification.patternBasedClassification.alternativeGroups ]

\* the request arrives: its body is parsed and the log of a new session is
\* started with the system turn; a body that is not JSON is answered 500
POST_Chat ==
    /\ chatPc = "idle"
    /\ \/ /\ chatResponse' = ErrorResponse(500, "Failed to process your request")
          /\ chatPc' = "responded"
          /\ UNCHANGED <<conversations, chatRequest>>
       \/ /\ \E sessionId \in Sessions, message \in Messages :
                /\ chatRequest' = [sessionId |-> sessionId, message |-> message,
                                   translatedText |-> ""]
                /\ conversations' =
                      IF conversations[sessionId] = <<>>
                      THEN [conversations EXCEPT ![sessionId] = <<SystemTurn>>]
                      ELSE conversations
          /\ chatPc' = "translate"
          /\ UNCHANGED chatResponse
    /\ UNCHANGED <<invoked, ticketClassification, classify, elsewhere>>

\* translateToEnglishIfNeeded: the text the provider gives back, or the
\* message itself; it never throws
translateToEnglishIfNeeded ==
    /\ chatPc = "translate"
    /\ \E translatedText \in Messages :
          chatRequest' = [chatRequest EXCEPT !.translatedText = translatedText]
    /\ invoked' = invoked \cup {"translateToEnglishIfNeeded"}
    /\ chatPc' = "route"
    /\ UNCHANGED <<conversations, ticketClassification, chatResponse, classify, elsewhere>>

\* Conversational that answers without writing the log
ConversationalNotLogged ==
    /\ chatPc = "route"
    /\ isConversationalPhrase(chatRequest.translatedText)
    /\ chatResponse' = [status |-> 200,
                        reply  |-> "conversationalResponse",
                        source |-> "conversational"]
    /\ chatPc' = "responded"
    /\ UNCHANGED <<conversations, chatRequest, invoked, ticketClassification, classify, elsewhere>>

\* a conversational phrase: both turns are logged and the canned reply returned
Conversational ==
    /\ chatPc = "route"
    /\ isConversationalPhrase(chatRequest.translatedText)
    /\ SetLog(Truncate(Log \o << UserTurn, AssistantTurn("conversationalResponse") >>))
    /\ chatResponse' = [status |-> 200,
                        reply  |-> "conversationalResponse",
                        source |-> "conversational"]
    /\ chatPc' = "responded"
    /\ UNCHANGED <<chatRequest, invoked, ticketClassification, classify, elsewhere>>

\* searchFAQ: a match or null (its errors are answered with null)
searchFAQ ==
    /\ chatPc = "route"
    /\ ~isConversationalPhrase(chatRequest.translatedText)
    /\ invoked' = invoked \cup {"searchFAQ"}
    /\ \E faqMatch \in BOOLEAN :
          chatPc' = IF faqMatch THEN "rephrase" ELSE "classifyTicket"
    /\ UNCHANGED <<conversations, chatRequest, ticketClassification, chatResponse,
                   classify, elsewhere>>

\* a FAQ match: rephraseWithOpenAI (it never throws), both turns are logged
FAQAnswer ==
    /\ chatPc = "rephrase"
    /\ invoked' = invoked \cup {"rephraseWithOpenAI"}
    /\ SetLog(Truncate(Log \o << UserTurn, AssistantTurn("rephrased") >>))
    /\ chatResponse' = [status |-> 200, reply |-> "rephrased", source |-> "faq"]
    /\ chatPc' = "responded"
    /\ UNCHANGED <<chatRequest, ticketClassification, classify, elsewhere>>

\* classifyTicket whose failure ends the request with an error response
classifyTicketOrFail ==
    /\ chatPc = "classifyTicket"
    /\ invoked' = invoked \cup {"classifyTicket"}
    /\ \E classification \in ClassifyReplies \cup {JSNull} :
          /\ ticketClassification' = classification
          /\ IF IsNull(classification)
             THEN /\ chatResponse' = ErrorResponse(500, "Failed to process your request")
                  /\ chatPc' = "responded"
                  /\ UNCHANGED conversations
             ELSE /\ SetLog(Truncate(Append(Log, UserTurn)))
                  /\ chatPc' = "completion"
                  /\ UNCHANGED chatResponse
    /\ UNCHANGED <<chatRequest, classify, elsewhere>>

\* no FAQ match: classifyTicket is called, whatever the message; it answers
\* with the body of /api/classify-ticket, or with null when the call failed;
\* then the user turn is logged and the log truncated
classifyTicket ==
    /\ chatPc = "classifyTicket"
    /\ invoked' = invoked \cup {"classifyTicket"}
    /\ \E classification \in ClassifyReplies \cup {JSNull} :
          ticketClassification' = classification
    /\ SetLog(Truncate(Append(Log, UserTurn)))
    /\ chatPc' = "completion"
    /\ UNCHANGED <<chatRequest, chatResponse, classify, elsewhere>>

\* openai.chat.completions.create on the log: it throws and the request is
\* answered 500, or its reply is logged and returned with the classification
Completion ==
    /\ chatPc = "completion"
    /\ invoked' = invoked \cup {"chat.completions.create"}
    /\ \/ /\ chatResponse' = ErrorResponse(500, "Failed to process your request")
          /\ UNCHANGED conversations
       \/ /\ SetLog(Append(Log, AssistantTurn("reply")))
          /\ chatResponse' = [status |-> 200, reply |-> "reply", source |-> "ai",
                              ticketClassification |->
                                  EnhancedClassification(ticketClassification)]
    /\ chatPc' = "responded"
    /\ UNCHANGED <<chatRequest, ticketClassification, classify, elsewhere>>

\* the client sends its next message
NextChat ==
    /\ chatPc = "responded"
    /\ chatPc' = "idle"
    /\ chatRequest' = NoChatRequest
    /\ invoked' = {}
    /\ ticketClassification' = JSNull
    /\ chatResponse' = NoResponse
    /\ UNCHANGED <<conversations, classify, elsewhere>>

\* the classify-ticket route of this module is at rest while the chat route
\* is followed
InitChat ==
    /\ tickets = <<>>
    /\ extension = FALSE
    /\ column = FALSE
    /\ pc = "idle"
    /\ openAIClassification = NoClassification
    /\ vectorResults = NoOutcome
    /\ response = NoResponse
    /\ completions = 0
    /\ AtRest

NextChatRoute ==
    \/ POST_Chat
    \/ translateToEnglishIfNeeded
    \/ Conversational
    \/ searchFAQ
    \/ FAQAnswer
    \/ classifyTicket
    \/ Completion
    \/ NextChat

SpecChat == InitChat /\ [][NextChatRoute]_vars

-----------------------------------------------------------------------------
(* POST /api/import-tickets: one upload and the events of its stream *)

\* rows handed to one insert call
BATCH_SIZE == 50

\* largest number of data rows of an uploaded sheet: one full batch and a
\* second, shorter one
MaxRows == 52

\* the columns mapRowToRecord requires
RequiredColumns == { "Ticket Id", "Subject", "Requester Email" }

\* a data row, as the set of required columns it has a value in
CompleteRow == RequiredColumns

IncompleteRows == { RequiredColumns \ {c} : c \in RequiredColumns }

\* the rows of a sheet that may miss a required column: the first two and
\* the two on either side of the end of the first batch
ProbeRows == { 1, 2, BATCH_SIZE, BATCH_SIZE + 1 }

\* the data rows processExcelFile returns for the sheets of n data rows
Sheets(n) ==
    { [r \in 1..n |-> IF r \in DOMAIN incomplete THEN incomplete[r] ELSE CompleteRow] :
          incomplete \in UNION { [S -> IncompleteRows] : S \in SUBSET (ProbeRows \cap 1..n) } }

\* the requests: three that processRequest rejects, a workbook whose first
\* sheet has no row at all (headerRow is undefined), and workbooks with a
\* header row and data rows
Uploads ==
    { [kind |-> k] : k \in { "not multipart", "no file", "not excel", "empty sheet" } }
    \cup { [kind |-> "excel", rows |-> rows] :
               rows \in UNION { Sheets(n) : n \in 0..MaxRows } }

\* mapRowToRecord: a record, or the error it throws
mapRowToRecord(row) ==
    IF RequiredColumns \subseteq row
    THEN [ok |-> TRUE]
    ELSE [ok |-> FALSE, error |-> "Missing required fields"]

\* Math.round((processed / total) * 100), for total > 0
Percentage(processed, total) == (200 * processed + total) \div (2 * total)

\* a progress event that reports the rows of the last batch only
ProgressEventOfBatch(c) ==
    [type |-> "progress", processed |-> c.processed - (c.i - BATCH_SIZE),
     total |-> c.total,
     successful |-> c.successful, failed |-> c.failed,
     percentage |-> IF c.processed = 0 THEN 0 ELSE Percentage(c.processed, c.total)]

ProgressEvent(c) ==
    [type |-> "progress", processed |-> c.processed, total |-> c.total,
     successful |-> c.successful, failed |-> c.failed,
     percentage |-> IF c.processed = 0 THEN 0 ELSE Percentage(c.processed, c.total)]

CompleteEvent(c) ==
    [type |-> "complete", total |-> c.total, successful |-> c.successful,
     failed |-> c.failed]

ErrorEvent(message) == [type |-> "error", message |-> message]

Write(event) == stream' = Append(stream, event)

\* an exception inside the try block of processRequest: its catch writes the
\* error event and goes on to close the writer
Throw(message) ==
    /\ Write(ErrorEvent(message))
    /\ importPc' = "close"

\* POST: creates the stream and starts processRequest on the request
POST_Import ==
    /\ importPc = "idle"
    /\ \E u \in Uploads : upload' = u
    /\ importPc' = "processRequest"
    /\ UNCHANGED <<counters, stream, writerClosed, inserted, classify, chat, backfill, callers>>

\* processRequest up to the first progress event: the checks of the request,
\* processExcelFile and the counters
processRequest ==
    /\ importPc = "processRequest"
    /\ CASE upload.kind = "not multipart" ->
               Throw("Request must be multipart/form-data") /\ UNCHANGED counters
         [] upload.kind = "no file" ->
               Throw("No file provided") /\ UNCHANGED counters
         [] upload.kind = "not excel" ->
               Throw("File must be an Excel file (.xls or .xlsx)") /\ UNCHANGED counters
         [] upload.kind = "empty sheet" ->
               Throw("Cannot convert undefined or null to object") /\ UNCHANGED counters
         [] upload.kind = "excel" ->
               /\ counters' = [i |-> 0, total |-> Len(upload.rows), processed |-> 0,
                               successful |-> 0, failed |-> 0]
               /\ Write(ProgressEvent(counters'))
               /\ importPc' = "batches"
    /\ UNCHANGED <<upload, writerClosed, inserted, classify, chat, backfill, callers>>

\* rows.slice(i, i + BATCH_SIZE), as row numbers
Batch(rows, i) == { r \in 1..Len(rows) : i < r /\ r <= i + BATCH_SIZE }

\* the rows of the batch mapRowToRecord returns a record for
batchRecords(rows, i) == { r \in Batch(rows, i) : mapRowToRecord(rows[r]).ok }

\* the counters after the mapping loop of a batch: failed++ for each row
\* mapRowToRecord throws on
AfterMapping(c, rows) ==
    [c EXCEPT !.failed = @ + Cardinality(Batch(rows, c.i) \ batchRecords(rows, c.i))]

\* AfterInsert that counts the rows of a failed insert as processed only
AfterInsertErrorUncounted(c, rows, error, data) ==
    LET records == batchRecords(rows, c.i)
        counted == IF error
                   THEN c
                   ELSE [c EXCEPT !.successful = @ + Cardinality(data),
                                  !.failed = @ + Cardinality(records) - Cardinality(data)]
    IN  [counted EXCEPT !.processed = @ + Cardinality(Batch(rows, c.i)),
                        !.i = @ + BATCH_SIZE]

\* the counters after the insert of the batch records (none when there is no
\* record) and the end of the loop body
AfterInsert(c, rows, error, data) ==
    LET records == batchRecords(rows, c.i)
        counted == IF error
                   THEN [c EXCEPT !.failed = @ + Cardinality(records)]
                   ELSE [c EXCEPT !.successful = @ + Cardinality(data),
                                  !.failed = @ + Cardinality(records) - Cardinality(data)]
    IN  [counted EXCEPT !.processed = @ + Cardinality(Batch(rows, c.i)),
                        !.i = @ + BATCH_SIZE]

\* one pass of the batch loop: mapping, insert(batchRecords).select(), the
\* counters and the progress event.  The insert returns an error, returns the
\* rows it stored, or its call throws.
ProcessBatch ==
    /\ importPc = "batches"
    /\ counters.i < Len(upload.rows)
    /\ LET rows    == upload.rows
           mapped  == AfterMapping(counters, rows)
           records == batchRecords(rows, counters.i)
       IN  \/ /\ records = {}
              /\ counters' = AfterInsert(mapped, rows, FALSE, {})
              /\ Write(ProgressEvent(counters'))
              /\ UNCHANGED <<importPc, inserted>>
           \/ /\ records # {}
              /\ \/ /\ counters' = AfterInsert(mapped, rows, TRUE, {})
                    /\ UNCHANGED inserted
                 \/ /\ counters' = AfterInsert(mapped, rows, FALSE, records)
                    /\ inserted' = inserted \cup records
              /\ Write(ProgressEvent(counters'))
              /\ UNCHANGED importPc
           \/ /\ records # {}
              /\ counters' = mapped
              /\ Throw("fetch failed")
              /\ UNCHANGED inserted
    /\ UNCHANGED <<upload, writerClosed, classify, chat, backfill, callers>>

\* after the last batch: the complete event
WriteComplete ==
    /\ importPc = "batches"
    /\ counters.i >= Len(upload.rows)
    /\ Write(CompleteEvent(counters))
    /\ importPc' = "close"
    /\ UNCHANGED <<upload, counters, writerClosed, inserted, classify, chat, backfill, callers>>

\* await writer.close(), at the end of the try block and of the catch block
CloseWriter ==
    /\ importPc = "close"
    /\ writerClosed' = TRUE
    /\ importPc' = "closed"
    /\ UNCHANGED <<upload, counters, stream, inserted, classify, chat, backfill, callers>>

\* the other routes are at rest while the import is followed
InitImport ==
    /\ tickets = <<>>
    /\ extension = FALSE
    /\ column = FALSE
    /\ pc = "idle"
    /\ openAIClassification = NoClassification
    /\ vectorResults = NoOutcome
    /\ response = NoResponse
    /\ completions = 0
    /\ AtRest

NextImport ==
    \/ POST_Import
    \/ processRequest
    \/ ProcessBatch
    \/ WriteComplete
    \/ CloseWriter

SpecImport == InitImport /\ [][NextImport]_vars

-----------------------------------------------------------------------------
(* /api/update-embeddings, POST and GET, one call at a time *)

\* .limit(50) of POST
POST_LIMIT == 50

\* .limit(10) of GET
GET_LIMIT == 10

\* largest number of embedding, update and select calls that fail in a run
MaxFailures == 1

\* numbers of rows of ticket_history before the first call: none, fewer than
\* either limit, and one more than each limit
Backlogs == { 0, 2, GET_LIMIT + 1, POST_LIMIT + 1 }

Limit(method) == IF method = "POST" THEN POST_LIMIT ELSE GET_LIMIT

\* ids of the rows whose embedding is null, in ascending order of id
RECURSIVE WithoutEmbedding(_, _)
WithoutEmbedding(rows, id) ==
    IF id > Len(rows)
    THEN <<>>
    ELSE IF rows[id].embedding
         THEN WithoutEmbedding(rows, id + 1)
         ELSE <<id>> \o WithoutEmbedding(rows, id + 1)

\* select ... is('embedding', null) limit n that may also return rows that
\* have an embedding
SelectAnyRow(rows, n) ==
    { SubSeq([id \in 1..Len(rows) |-> id], 1, Min(n, Len(rows))) }

\* select id, subject, description where embedding is null limit n.  The
\* query has no order by; the rows are taken in the order of the table scan,
\* which for rows that were never updated is the order of their ids.
SelectWithoutEmbedding(rows, n) ==
    LET ids == WithoutEmbedding(rows, 1)
    IN  { SubSeq(ids, 1, Min(n, Len(ids))) }

\* the answer of a call that found no row without an embedding
NoneLeft(method) ==
    [status |-> 200,
     message |-> IF method = "POST"
                 THEN "No tickets found that need embeddings"
                 ELSE "No tickets found without embeddings"]

\* the call answers and ends
Respond(body) ==
    /\ bfResponse' = body
    /\ bfPc' = "responded"

\* the call goes on to its next step
Step(next) ==
    /\ bfPc' = next
    /\ UNCHANGED <<store, bfMethod, selected, results, bfResponse, failures>>

\* a provider or store call fails, within the bound of the model
Fails ==
    /\ failures < MaxFailures
    /\ failures' = failures + 1

\* the request arrives
UE_Request ==
    /\ bfPc = "idle"
    /\ \E method \in { "POST", "GET" } :
          /\ bfMethod' = method
          /\ bfPc' = IF method = "POST" THEN "checkExtension" ELSE "checkColumn"
    /\ UNCHANGED <<store, selected, results, bfResponse, failures,
                   request, chat, importer, callers>>

\* POST: rpc check_vector_extension, of which only the error is read
UE_CheckExtension ==
    /\ bfPc = "checkExtension"
    /\ \/ Step("createExtension")
       \/ Step("checkColumn")
    /\ UNCHANGED <<request, chat, importer, callers>>

\* POST: rpc create_vector_extension, awaited without reading its error
UE_CreateExtension ==
    /\ bfPc = "createExtension"
    /\ \/ /\ extension' = TRUE
          /\ bfPc' = "checkColumn"
          /\ UNCHANGED <<tickets, column, bfMethod, selected, results, bfResponse,
                         failures>>
       \/ Step("checkColumn")
    /\ UNCHANGED <<request, chat, importer, callers>>

\* rpc check_embedding_column.  POST reads only the error; GET answers 500
\* on an error and on the answer false.
UE_CheckColumn ==
    /\ bfPc = "checkColumn"
    /\ IF bfMethod = "POST"
       THEN \/ Step("addColumn")
            \/ Step("fetch")
       ELSE \/ /\ column
               /\ Step("fetch")
            \/ /\ ~column
               /\ Respond([status |-> 500,
                           error |-> "Embedding column does not exist. Please run the SQL script first."])
               /\ UNCHANGED <<store, bfMethod, selected, results, failures>>
            \/ /\ Fails
               /\ Respond([status |-> 500,
                           error |-> "Embedding column does not exist. Please run the SQL script first."])
               /\ UNCHANGED <<store, bfMethod, selected, results>>
    /\ UNCHANGED <<request, chat, importer, callers>>

\* POST: rpc add_embedding_column, awaited without reading its error
UE_AddColumn ==
    /\ bfPc = "addColumn"
    /\ \/ /\ extension
          /\ column' = TRUE
          /\ bfPc' = "fetch"
          /\ UNCHANGED <<tickets, extension, bfMethod, selected, results, bfResponse,
                         failures>>
       \/ Step("fetch")
    /\ UNCHANGED <<request, chat, importer, callers>>

\* the query for the rows without an embedding: it fails (always, when the
\* column is missing), finds no row, or returns the rows to process
UE_Fetch ==
    /\ bfPc = "fetch"
    /\ \/ /\ ~column
          /\ Respond([status |-> 500, error |-> "Failed to fetch tickets"])
          /\ UNCHANGED <<store, selected, results, failures>>
       \/ /\ Fails
          /\ Respond([status |-> 500, error |-> "Failed to fetch tickets"])
          /\ UNCHANGED <<store, selected, results>>
       \/ /\ column
          /\ \E rows \in SelectWithoutEmbedding(tickets, Limit(bfMethod)) :
                IF Len(rows) = 0
                THEN /\ Respond(NoneLeft(bfMethod))
                     /\ UNCHANGED <<selected, results>>
                ELSE /\ selected' = rows
                     /\ results' = <<>>
                     /\ bfPc' = "embed"
                     /\ UNCHANGED bfResponse
          /\ UNCHANGED <<store, failures>>
    /\ UNCHANGED <<bfMethod, request, chat, importer, callers>>

\* the ticket of the next pass of the loop
Ticket == selected[Len(results) + 1]

\* EmbedTicket that leaves the loop at the first ticket that fails
EmbedTicketOrStop ==
    /\ bfPc = "embed"
    /\ Len(results) < Len(selected)
    /\ \/ /\ Fails
          /\ results' = results \o [k \in 1..(Len(selected) - Len(results)) |->
                                       [id |-> selected[Len(results) + k], success |-> FALSE]]
          /\ UNCHANGED store
       \/ /\ results' = Append(results, [id |-> Ticket, success |-> TRUE])
          /\ tickets' = [tickets EXCEPT ![Ticket].embedding = TRUE]
          /\ UNCHANGED <<extension, column, failures>>
    /\ UNCHANGED <<bfPc, bfMethod, selected, bfResponse, request, chat, importer, callers>>

\* one pass of the loop: generateEmbedding throws or the update returns an
\* error, and the ticket gets a failed result; or the embedding is stored
EmbedTicket ==
    /\ bfPc = "embed"
    /\ Len(results) < Len(selected)
    /\ \/ /\ Fails
          /\ results' = Append(results, [id |-> Ticket, success |-> FALSE])
          /\ UNCHANGED store
       \/ /\ results' = Append(results, [id |-> Ticket, success |-> TRUE])
          /\ tickets' = [tickets EXCEPT ![Ticket].embedding = TRUE]
          /\ UNCHANGED <<extension, column, failures>>
    /\ UNCHANGED <<bfPc, bfMethod, selected, bfResponse, request, chat, importer, callers>>

\* the number of results with the given success flag
RECURSIVE CountResults(_, _)
CountResults(list, flag) ==
    IF list = <<>>
    THEN 0
    ELSE (IF Head(list).success = flag THEN 1 ELSE 0) + CountResults(Tail(list), flag)

\* after the loop: the response.  POST reports processed, successful, failed
\* and results; GET reports processed and results.
UE_Respond ==
    /\ bfPc = "embed"
    /\ Len(results) = Len(selected)
    /\ Respond(IF bfMethod = "POST"
               THEN [status |-> 200, processed |-> Len(selected),
                     successful |-> CountResults(results, TRUE),
                     failed |-> CountResults(results, FALSE),
                     results |-> results]
               ELSE [status |-> 200, processed |-> Len(selected),
                     results |-> results])
    /\ UNCHANGED <<store, bfMethod, selected, results, failures,
                   request, chat, importer, callers>>

\* an awaited call outside the loop throws: the outer catch answers 500
UE_Catch ==
    /\ bfPc \in { "checkExtension", "createExtension", "checkColumn", "addColumn", "fetch" }
    /\ Fails
    /\ Respond([status |-> 500, error |-> "Failed to update embeddings"])
    /\ UNCHANGED <<store, bfMethod, selected, results, request, chat, importer, callers>>

\* the next call
UE_Next ==
    /\ bfPc = "responded"
    /\ bfPc' = "idle"
    /\ bfMethod' = "none"
    /\ selected' = <<>>
    /\ results' = <<>>
    /\ bfResponse' = NoResponse
    /\ UNCHANGED <<store, failures, request, chat, importer, callers>>

\* a store of rows without embeddings, with or without the extension and
\* the column
InitBackfill ==
    /\ extension \in BOOLEAN
    /\ column \in { c \in BOOLEAN : c => extension }
    /\ \E n \in Backlogs :
          tickets = [id \in 1..n |-> [assigned_group |-> "Security", embedding |-> FALSE]]
    /\ pc = "idle"
    /\ openAIClassification = NoClassification
    /\ vectorResults = NoOutcome
    /\ response = NoResponse
    /\ completions = 0
    /\ AtRest

NextBackfill ==
    \/ UE_Request
    \/ UE_CheckExtension
    \/ UE_CreateExtension
    \/ UE_CheckColumn
    \/ UE_AddColumn
    \/ UE_Fetch
    \/ EmbedTicket
    \/ UE_Respond
    \/ UE_Catch
    \/ UE_Next

SpecBackfill == InitBackfill /\ [][NextBackfill]_vars

\* a call in progress takes its next step, and a further call is made while
\* a row has no embedding or the last answer was not that none is left
FairSpecBackfill == SpecBackfill /\ WF_vars(NextBackfill)

-----------------------------------------------------------------------------
(* The extension and column steps of concurrent calls *)

\* number of calls in flight at once
MaxCallers == 2

CallerIds == 1..MaxCallers

\* the two routes that run the steps
HealingRoutes == { "classify-ticket", "update-embeddings" }

At(c) == callers.of[c].at

\* call c moves to its next position; created is what its statement added
\* to the schema
Move(c, next, created) ==
    callers' = [callers EXCEPT !.of[c].at = next,
                               !.of[c].created = @ \cup created]

\* rpc check_vector_extension of call c: only the error is read
H_CheckExtension(c) ==
    /\ At(c) = "checkExtension"
    /\ \/ Move(c, "createExtension", {})
       \/ Move(c, "checkColumn", {})
    /\ UNCHANGED <<store, request, chat, importer, backfill>>

\* create_vector_extension that installs the extension afresh, which drops
\* the column of the vector type
H_CreateExtensionAfresh(c) ==
    /\ At(c) = "createExtension"
    /\ extension' = TRUE
    /\ column' = FALSE
    /\ Move(c, "checkColumn", {"extension"})
    /\ UNCHANGED <<tickets, request, chat, importer, backfill>>

\* rpc create_vector_extension of call c: CREATE EXTENSION IF NOT EXISTS
\* installs the extension, finds it installed, or fails (no permission, or
\* another call is installing it); the error of the call is not read.  An
\* exception of the call ends the search (classify-ticket) or the request
\* (update-embeddings).
H_CreateExtension(c) ==
    /\ At(c) = "createExtension"
    /\ \/ /\ ~extension
          /\ extension' = TRUE
          /\ Move(c, "checkColumn", {"extension"})
          /\ UNCHANGED <<tickets, column>>
       \/ /\ Move(c, "checkColumn", {})
          /\ UNCHANGED store
       \/ /\ Move(c, "failed", {})
          /\ UNCHANGED store
    /\ UNCHANGED <<request, chat, importer, backfill>>

\* rpc check_embedding_column of call c: only the error is read
H_CheckColumn(c) ==
    /\ At(c) = "checkColumn"
    /\ \/ Move(c, "addColumn", {})
       \/ Move(c, "queries", {})
    /\ UNCHANGED <<store, request, chat, importer, backfill>>

\* rpc add_embedding_column of call c: ALTER TABLE ADD COLUMN IF NOT EXISTS
\* adds the column (it needs the extension), finds it, or fails; the error
\* is not read
H_AddColumn(c) ==
    /\ At(c) = "addColumn"
    /\ \/ /\ extension /\ ~column
          /\ column' = TRUE
          /\ Move(c, "queries", {"column"})
          /\ UNCHANGED <<tickets, extension>>
       \/ /\ Move(c, "queries", {})
          /\ UNCHANGED store
       \/ /\ Move(c, "failed", {})
          /\ UNCHANGED store
    /\ UNCHANGED <<request, chat, importer, backfill>>

\* a step of call c
H_Step(c) ==
    \/ H_CheckExtension(c)
    \/ H_CreateExtension(c)
    \/ H_CheckColumn(c)
    \/ H_AddColumn(c)

\* calls of either route, all at the extension check, against a store that
\* misses the column or the extension and the column
InitHealing ==
    /\ extension \in BOOLEAN
    /\ column = FALSE
    /\ tickets = << [assigned_group |-> "Security", embedding |-> FALSE] >>
    /\ pc = "idle"
    /\ openAIClassification = NoClassification
    /\ vectorResults = NoOutcome
    /\ response = NoResponse
    /\ completions = 0
    /\ ChatAtRest
    /\ ImportAtRest
    /\ BackfillAtRest
    /\ \E routes \in [CallerIds -> HealingRoutes] :
          callers = [start |-> [extension |-> extension, column |-> column],
                     of |-> [c \in CallerIds |->
                                [route |-> routes[c], at |-> "checkExtension",
                                 created |-> {}]]]

CheckExtensionOfSome == \E c \in CallerIds : H_CheckExtension(c)

CreateExtensionOfSome == \E c \in CallerIds : H_CreateExtension(c)

CheckColumnOfSome == \E c \in CallerIds : H_CheckColumn(c)

AddColumnOfSome == \E c \in CallerIds : H_AddColumn(c)

NextHealing ==
    \/ CheckExtensionOfSome
    \/ CreateExtensionOfSome
    \/ CheckColumnOfSome
    \/ AddColumnOfSome

SpecHealing == InitHealing /\ [][NextHealing]_vars

-----------------------------------------------------------------------------
(* Properties of the reconciler, checked under SpecReconciler *)

Primary == openAIClassification.primaryGroup

Similar == vectorResults.results

Final == response.finalRecommendation

Reconciled == pc = "reconciled"

\* a final recommendation was produced, by Reconcile or by POST
Decided == pc = "reconciled" \/ (pc = "responded" /\ response.status = 200)

\* the pattern primary group is the name of no similarity entry
NoOverlap == \A i \in 1..Len(Similar) : Similar[i].name # Primary.name

\* first position of the pattern primary group in the similarity list
FirstMatch == CHOOSE i \in 1..Len(Similar) :
                 /\ Similar[i].name = Primary.name
                 /\ \A j \in 1..(i - 1) : Similar[j].name # Primary.name

\* C1: with an empty similarity list the final recommendation is the pattern
\* primary group's name, confidence and reasoning unchanged, source
\* "pattern-based".
C1_EmptySimilarityIsPatternVerbatim ==
    (Reconciled /\ Similar = <<>>) =>
        Final = [group      |-> Primary.name,
                 confidence |-> Primary.confidence,
                 source     |-> "pattern-based",
                 reasoning  |-> [kind |-> "pattern", text |-> Primary.reasoning,
                                 count |-> 0]]

C1_Witness ==
    /\ Reconciled
    /\ Similar = <<>>
    /\ Primary.name = "Network Operations"
    /\ Primary.confidence = 80
    /\ Final.confidence = 80
    /\ Final.source = "pattern-based"

\* C2: when the top similarity entry names the pattern primary group, the
\* final recommendation is that group with confidence
\* round(0.4 * pattern + 0.6 * top) and source "combined", whatever the other
\* entries are and also when the top confidence is above 70.
C2_AgreementIsCombined ==
    (Reconciled /\ Len(Similar) > 0 /\ Similar[1].name = Primary.name) =>
        /\ Final.group = Primary.name
        /\ Final.confidence =
               (4 * Primary.confidence + 6 * Similar[1].confidence + 5) \div 10
        /\ Final.source = "combined"
        /\ Final.reasoning = [kind |-> "both-agree", text |-> "",
                              count |-> Similar[1].count]

C2_Witness ==
    /\ Reconciled
    /\ Len(Similar) = 2
    /\ Similar[1].name = "Security"
    /\ Primary.name = "Security"
    /\ Primary.confidence = 80
    /\ Similar[1].confidence = 100
    /\ Similar[2].name = "Legacy Team"
    /\ Final.confidence = 92
    /\ Final.source = "combined"

\* C3: when the pattern primary group is not the top similarity entry but a
\* later one, the final recommendation is the pattern primary group with
\* confidence round(0.7 * pattern + 0.3 * that entry) and source
\* "pattern-weighted", also when the top entry is above 70.
C3_PartialSupportIsPatternWeighted ==
    (Decided /\ Len(Similar) > 0 /\ Similar[1].name # Primary.name /\ ~NoOverlap) =>
        /\ Final.group = Primary.name
        /\ Final.confidence =
               (7 * Primary.confidence + 3 * Similar[FirstMatch].confidence + 5) \div 10
        /\ Final.source = "pattern-weighted"

\* What does hold of rule 3: group, source, precedence over the strong-history
\* rule, and a confidence that is an integer nearest to 0.7 * pattern +
\* 0.3 * entry (at an exact tie the lower one may be returned).
Rule3_NearestInteger ==
    (Decided /\ Len(Similar) > 0 /\ Similar[1].name # Primary.name /\ ~NoOverlap) =>
        /\ Final.group = Primary.name
        /\ Final.source = "pattern-weighted"
        /\ 10 * Final.confidence
             - (7 * Primary.confidence + 3 * Similar[FirstMatch].confidence) \in -5..5
        /\ Final.reasoning = [kind |-> "some-support", text |-> "",
                              count |-> Similar[FirstMatch].count]

\* C4: with no overlap and a top similarity confidence strictly above 70 the
\* final recommendation is the top entry's group and confidence unchanged,
\* source "history-weighted"; so every "history-weighted" recommendation has
\* a confidence above 70 and a group other than the pattern primary group.
C4_StrongHistoryWins ==
    /\ (Reconciled /\ Len(Similar) > 0 /\ NoOverlap /\ Similar[1].confidence > 70) =>
          Final = [group      |-> Similar[1].name,
                   confidence |-> Similar[1].confidence,
                   source     |-> "history-weighted",
                   reasoning  |-> [kind |-> "history", text |-> "",
                                   count |-> Similar[1].count]]
    /\ (Reconciled /\ Final.source = "history-weighted") =>
          /\ Final.confidence > 70
          /\ Final.group # Primary.name

C4_Witness ==
    /\ Reconciled
    /\ Len(Similar) = 1
    /\ Similar[1].name = "Legacy Team"
    /\ Similar[1].confidence = 71
    /\ Primary.name = "Security"
    /\ Primary.confidence = 100
    /\ Final.group = "Legacy Team"
    /\ Final.confidence = 71
    /\ Final.source = "history-weighted"

\* C5: with no overlap and a top similarity confidence of at most 70 the final
\* recommendation is the pattern primary group with confidence
\* min(pattern, 70), source "pattern-based"; so a "pattern-based"
\* recommendation above 70 occurs only with an empty similarity list.
C5_WeakHistoryCapsPattern ==
    /\ (Reconciled /\ Len(Similar) > 0 /\ NoOverlap /\ Similar[1].confidence <= 70) =>
          Final = [group      |-> Primary.name,
                   confidence |-> IF Primary.confidence < 70
                                  THEN Primary.confidence ELSE 70,
                   source     |-> "pattern-based",
                   reasoning  |-> [kind |-> "pattern-with-note",
                                   text |-> Primary.reasoning, count |-> 0]]
    /\ (Reconciled /\ Final.source = "pattern-based" /\ Final.confidence > 70) =>
          Similar = <<>>

C5_Witness ==
    /\ Reconciled
    /\ Len(Similar) = 1
    /\ Similar[1].name = "Legacy Team"
    /\ Similar[1].confidence = 70
    /\ Primary.name = "Network Operations"
    /\ Primary.confidence = 80
    /\ Final.group = "Network Operations"
    /\ Final.confidence = 70
    /\ Final.source = "pattern-based"

-----------------------------------------------------------------------------
(* Properties of a classify-ticket request, checked under Spec *)

Answered == pc = "responded" /\ response.status = 200

\* assigned_group labels of the neighbours matched for this request
NeighbourLabels ==
    { vectorResults.similarTickets[i].assigned_group :
          i \in 1..Len(vectorResults.similarTickets) }

\* C6: every confidence of a response, of each similarity match and of the
\* final recommendation, is an integer between 0 and 100.
C6_ConfidenceInRange ==
    Answered =>
        /\ Final.confidence \in 0..100
        /\ \A i \in 1..Len(response.vectorSimilarityClassification.recommendations) :
              response.vectorSimilarityClassification.recommendations[i].confidence
                  \in 0..100

\* C8: the group of every final recommendation is a name of supportGroups or
\* a label of a matched historical neighbour of the request.
C8_GroupInVocabulary ==
    Answered => Final.group \in supportGroups \cup NeighbourLabels

\* C9: findSimilarTickets always returns an outcome to POST; an outcome with
\* success = false has no results and a non-empty error, and the search
\* fails whenever the store is empty, lacks the extension or the column, or
\* has no embedded row.
C9_SimilarityNeverThrows ==
    /\ (pc = "responded" /\ response.status = 500) =>
          \/ openAIClassification = NoClassification
          \/ ~HasPrimaryGroup(openAIClassification)
    /\ (pc \in { "combine", "responded" } /\ ~vectorResults.success) =>
          /\ vectorResults.results = <<>>
          /\ vectorResults.error # ""
    /\ (pc = "combine"
          /\ \/ Len(tickets) = 0
             \/ ~extension
             \/ ~column
             \/ \A i \in 1..Len(tickets) : ~tickets[i].embedding) =>
          ~vectorResults.success

C9_Witness ==
    /\ pc = "combine"
    /\ ~vectorResults.success
    /\ vectorResults.error = "General error in vector similarity search"
    /\ vectorResults.results = <<>>
    /\ Len(tickets) > 0

\* C10: when the pattern classifier returned a classification and the
\* similarity classifier failed or found no neighbour, the request is
\* answered 200 and the final recommendation is the pattern primary group,
\* confidence and reasoning unchanged, source "pattern-based".
C10_ColdStartAvailability ==
    (/\ pc = "responded"
     /\ HasPrimaryGroup(openAIClassification)
     /\ (~vectorResults.success \/ vectorResults.results = <<>>)) =>
        /\ response.status = 200
        /\ Final = [group      |-> Primary.name,
                    confidence |-> Primary.confidence,
                    source     |-> "pattern-based",
                    reasoning  |-> [kind |-> "pattern", text |-> Primary.reasoning,
                                    count |-> 0]]

C10_Witness ==
    /\ pc = "responded"
    /\ Len(tickets) = 0
    /\ ~vectorResults.success
    /\ vectorResults.error = "No historical tickets available"
    /\ HasPrimaryGroup(openAIClassification)
    /\ Primary.confidence = 80
    /\ response.status = 200
    /\ Final.group = Primary.name
    /\ Final.confidence = 80
    /\ Final.source = "pattern-based"

\* C11: one request calls the generative provider at most once, and when the
\* call fails or its text is not the requested structure the request is
\* answered with an error that holds no part of a result.
C11_PatternFailureIsTerminal ==
    /\ completions <= 1
    /\ (pc = "responded" /\ completions = 1
           /\ openAIClassification.shape # "classification") =>
          /\ response.status = 500
          /\ DOMAIN response = { "status", "error" }

\* the steps the checks and the creations may take
SelfHealingStep ==
    /\ (pc = "checkExtension" /\ ~extension) => pc' \in { "createExtension", "combine" }
    /\ (pc = "checkExtension" /\ extension) => pc' # "createExtension"
    /\ pc = "createExtension" => pc' \in { "checkColumn", "combine" }
    /\ (pc = "checkColumn" /\ ~column) => pc' \in { "addColumn", "combine" }
    /\ (pc = "checkColumn" /\ column) => pc' # "addColumn"
    /\ pc = "addColumn" => pc' \in { "checkEmbeddings", "combine" }

\* C14: when the extension (the column) is absent at its check, its creation
\* is attempted, once; when it is present no creation is attempted; and a
\* search that still lacks either of them ends in a failure outcome without
\* reaching the embedding or the neighbour search.
C14_SelfHealingOnce ==
    /\ [][SelfHealingStep]_vars
    /\ [](pc \in { "generateEmbedding", "matchTickets" } => extension /\ column)
    /\ []((pc = "combine" /\ ~(extension /\ column)) => ~vectorResults.success)

\* how far a request has come
Rank(p) ==
    CASE p = "idle"               -> 0
      [] p = "classifyWithOpenAI" -> 1
      [] p = "checkTable"         -> 2
      [] p = "checkExtension"     -> 3
      [] p = "createExtension"    -> 4
      [] p = "checkColumn"        -> 5
      [] p = "addColumn"          -> 6
      [] p = "checkEmbeddings"    -> 7
      [] p = "generateEmbedding"  -> 8
      [] p = "matchTickets"       -> 9
      [] p = "combine"            -> 10
      [] p = "responded"          -> 11

NoEmbeddedRow == \A i \in 1..Len(tickets) : ~tickets[i].embedding

\* the reasons of a search that found the store unavailable or without usable
\* history
StoreFailures ==
    { "Ticket history table not accessible", "No historical tickets available",
      "Vector extension not available", "Embedding column could not be created",
      "Could not check for embeddings", "No tickets with embeddings",
      "General error in vector similarity search" }

\* a step never goes back inside a request, leaves the rows alone, and only
\* adds the extension and the column, the column never without the extension
SetupStep ==
    /\ pc' # "idle" => Rank(pc') > Rank(pc)
    /\ pc' = "idle" => pc = "responded"
    /\ tickets' = tickets
    /\ extension => extension'
    /\ column => column'
    /\ column' => extension'

\* C15: on a store that lacks the extension or the column, call after call,
\* every call runs through without going back and ends; the store only ever
\* gains the extension and the column (two changes at most, never the column
\* without the extension); and as long as no row is embedded every call ends
\* in a store-unavailable or insufficient-history failure that the request
\* answers around.
C15_SetupIdempotent ==
    /\ [][SetupStep]_vars
    /\ [](pc # "responded" => ENABLED Next)
    /\ []((pc = "combine" /\ NoEmbeddedRow) =>
             /\ ~vectorResults.success
             /\ vectorResults.error \in StoreFailures)

C15_Witness ==
    /\ pc = "responded"
    /\ Len(tickets) > 0
    /\ extension
    /\ ~column
    /\ vectorResults.error = "Could not check for embeddings"
    /\ response.status = 200

\* C16: every classification classifyWithOpenAI returns has at most two
\* alternative groups, none of them with the name of the primary group.
C16_AlternativesBounded ==
    openAIClassification.shape = "classification" =>
        /\ Len(openAIClassification.alternativeGroups) <= 2
        /\ \A i \in 1..Len(openAIClassification.alternativeGroups) :
              openAIClassification.alternativeGroups[i].name # Primary.name

\* a 200 response is written at the combine step only, as the first response
\* of the request, from the two outputs of this request; the step is left at once
JoinStep ==
    /\ (response' # response /\ response'.status = 200) =>
          /\ pc = "combine"
          /\ response = NoResponse
          /\ openAIClassification # NoClassification
          /\ vectorResults # NoOutcome
          /\ response'.patternBasedClassification = openAIClassification
          /\ response'.vectorSimilarityClassification.recommendations =
                 vectorResults.results
          /\ response'.finalRecommendation =
                 determineFinalRecommendation(openAIClassification, vectorResults.results)
    /\ pc = "combine" => pc' = "responded"
    /\ pc' = "combine" => pc # "combine" /\ openAIClassification' = openAIClassification

\* C17: the reconciler runs only after both classifyWithOpenAI and
\* findSimilarTickets of the request have returned, once per request, on the
\* two values they returned.
C17_JoinBeforeReconcile ==
    /\ [][JoinStep]_vars
    /\ [](pc = "combine" =>
             /\ completions = 1
             /\ openAIClassification \in ParsedResponses
             /\ vectorResults # NoOutcome)

C17_Witness ==
    /\ Answered
    /\ vectorResults.success
    /\ Len(Similar) = 2
    /\ Final.source = "pattern-weighted"
    /\ response.patternBasedClassification = openAIClassification
    /\ response.vectorSimilarityClassification.recommendations = Similar

-----------------------------------------------------------------------------
(* Properties of the tally, checked under SpecTally *)

Searched == pc = "combine" /\ vectorResults.success

Neighbours == vectorResults.similarTickets

\* position of the first neighbour labelled g
FirstSeen(g) ==
    CHOOSE k \in 1..Len(Neighbours) :
        /\ Neighbours[k].assigned_group = g
        /\ \A l \in 1..(k - 1) : Neighbours[l].assigned_group # g

\* C12: the results of a successful search are in descending order of
\* confidence, groups of equal confidence in the order in which their label
\* was first met among the neighbours, and no group is listed twice.
C12_ResultsOrdered ==
    Searched =>
        \A i, j \in 1..Len(Similar) :
            i < j =>
                /\ Similar[i].confidence >= Similar[j].confidence
                /\ Similar[i].name # Similar[j].name
                /\ Similar[i].confidence = Similar[j].confidence =>
                       FirstSeen(Similar[i].name) < FirstSeen(Similar[j].name)

\* C13: at most 5 neighbours are returned, each with a label and a
\* similarity above 0.5; every label among them has one result whose count is
\* the number of neighbours with that label and whose confidence is
\* round(100 * count / number of neighbours).
C13_TallyCounts ==
    Searched =>
        /\ Len(Neighbours) <= 5
        /\ \A k \in 1..Len(Neighbours) :
              /\ Neighbours[k].assigned_group # NULL
              /\ Neighbours[k].similarity > 50
              /\ tickets[Neighbours[k].id].embedding
              /\ tickets[Neighbours[k].id].assigned_group = Neighbours[k].assigned_group
              /\ \E i \in 1..Len(Similar) : Similar[i].name = Neighbours[k].assigned_group
        /\ \A i \in 1..Len(Similar) :
              LET n == Len(Neighbours)
                  c == Cardinality({ k \in 1..n :
                                       Neighbours[k].assigned_group = Similar[i].name })
              IN  /\ Similar[i].count = c
                  /\ c >= 1
                  /\ 2 * n * Similar[i].confidence - 200 * c > -n
                  /\ 2 * n * Similar[i].confidence - 200 * c <= n

C13_Witness ==
    /\ Searched
    /\ Len(tickets) = 6
    /\ Len(Neighbours) = 5
    /\ Len(Similar) = 2
    /\ Similar[1].count = 3
    /\ Similar[1].confidence = 60
    /\ Similar[2].count = 2
    /\ Similar[2].confidence = 40

-----------------------------------------------------------------------------
(* Properties of a chat request, checked under SpecChat *)

\* no chat request is half-way
ChatCompleted == chatPc \in { "idle", "responded" }

\* C18: between chat requests the log of every session has at most 11
\* entries, the system turn followed by at most 10 user and assistant turns.
C18_LogBounded ==
    ChatCompleted =>
        \A s \in Sessions :
            /\ Len(conversations[s]) <= 11
            /\ \A i \in 1..Len(conversations[s]) :
                  conversations[s][i].role = "system" <=> i = 1

TicketLike ==
    \/ isLikelyTicket(chatRequest.message)
    \/ isLikelyTicket(chatRequest.translatedText)

\* C20: classifyTicket is called only for a text that isLikelyTicket accepts,
\* and only the response to such a text carries a ticketClassification.
C20_ClassificationOnlyForTickets ==
    /\ "classifyTicket" \in invoked => TicketLike
    /\ (chatPc = "responded" /\ chatResponse.status = 200
           /\ chatResponse.source = "ai"
           /\ ~IsNull(chatResponse.ticketClassification)) =>
          TicketLike

-----------------------------------------------------------------------------
(* Properties of the import route, checked under SpecImport *)

Terminal(event) == event.type \in { "complete", "error" }

\* the requests processRequest rejects before it reads the file
Rejected == upload.kind \in { "not multipart", "no file", "not excel" }

\* the stream so far is a run of progress events whose processed count never
\* decreases, with at most one terminal event, at its end
WellFormed(events) ==
    /\ \A k \in 1..Len(events) : Terminal(events[k]) => k = Len(events)
    /\ \A k \in 1..Len(events) : ~Terminal(events[k]) => events[k].type = "progress"
    /\ \A j, k \in 1..Len(events) :
          (j < k /\ ~Terminal(events[k])) => events[j].processed <= events[k].processed

\* a step of the import leaves a closed stream as it is and otherwise adds at
\* most one event at the end of the stream
StreamStep ==
    /\ writerClosed => (writerClosed' /\ stream' = stream)
    /\ \/ stream' = stream
       \/ Len(stream') = Len(stream) + 1 /\ SubSeq(stream', 1, Len(stream)) = stream

\* C21: the stream of an import request carries progress events whose
\* processed count never decreases, then exactly one terminal event
\* ("complete" or "error"); the writer is closed only after the terminal
\* event and nothing is written after that; a request in progress can always
\* take its next step until the writer is closed; a request that is not
\* multipart, has no file or has a file that is not Excel yields the error
\* event alone.
C21_StreamProtocol ==
    /\ [][StreamStep]_vars
    /\ [](WellFormed(stream))
    /\ [](writerClosed <=> importPc = "closed")
    /\ [](writerClosed => (Len(stream) >= 1 /\ Terminal(stream[Len(stream)])))
    /\ [](importPc \in { "processRequest", "batches", "close" } => ENABLED NextImport)
    /\ []((writerClosed /\ Rejected) => (Len(stream) = 1 /\ stream[1].type = "error"))

\* a sheet of two batches was imported: three progress events, the complete
\* event, and the writer closed
C21_Witness ==
    /\ writerClosed
    /\ Len(stream) = 4
    /\ stream[2].processed = BATCH_SIZE
    /\ stream[3].processed > BATCH_SIZE
    /\ stream[4].type = "complete"

\* the import is between two batches, or after the last one
BetweenBatches == importPc = "batches"

\* the rows of the sheet that miss a required column
IncompleteIn(rows) == { r \in 1..Len(rows) : ~(RequiredColumns \subseteq rows[r]) }

\* a pass of the batch loop whose insert stored rows stored exactly the
\* complete rows of the batch
InsertStep ==
    (BetweenBatches /\ counters'.successful > counters.successful)
        => inserted' \ inserted = Batch(upload.rows, counters.i) \ IncompleteIn(upload.rows)

\* C29: after every batch processed = successful + failed and processed <=
\* total; the rows of the batches done so far are counted exactly once; a row
\* that misses Ticket Id, Subject or Requester Email is counted as failed and
\* never inserted, while the other rows of its batch are inserted whenever
\* the insert succeeds; every progress event reports the same equation and
\* the complete event reports successful + failed = total.
C29_ImportCounters ==
    /\ [][InsertStep]_vars
    /\ [](BetweenBatches =>
            /\ counters.processed = counters.successful + counters.failed
            /\ counters.processed <= counters.total
            /\ counters.total = Len(upload.rows)
            /\ counters.processed = Min(counters.i, counters.total)
            /\ counters.successful = Cardinality(inserted)
            /\ counters.failed >=
                   Cardinality({ r \in IncompleteIn(upload.rows) : r <= counters.processed }))
    /\ [](upload.kind = "excel" => inserted \cap IncompleteIn(upload.rows) = {})
    /\ [](\A k \in 1..Len(stream) :
            /\ stream[k].type = "progress" =>
                  /\ stream[k].processed = stream[k].successful + stream[k].failed
                  /\ stream[k].processed <= stream[k].total
            /\ stream[k].type = "complete" =>
                  /\ stream[k].successful + stream[k].failed = stream[k].total
                  /\ stream[k].total = Len(upload.rows))

\* the complete event of a sheet of two batches whose first batch has a row
\* without a required column next to rows that were inserted
C29_Witness ==
    /\ importPc = "closed"
    /\ stream[Len(stream)].type = "complete"
    /\ stream[Len(stream)].total > BATCH_SIZE
    /\ stream[Len(stream)].failed = 1
    /\ \E r \in IncompleteIn(upload.rows) : r <= BATCH_SIZE /\ r + 1 \in inserted

-----------------------------------------------------------------------------
(* Properties of the update-embeddings route, checked under SpecBackfill *)

\* the call answered with the results of its loop
Backfilled == bfPc = "responded" /\ bfResponse.status = 200 /\ Len(selected) > 0

\* the query of a call returns rows without an embedding, each once, and no
\* more than the limit of the method
SelectStep ==
    (bfPc = "fetch" /\ bfPc' = "embed") =>
        /\ Len(selected') <= Limit(bfMethod)
        /\ \A k \in 1..Len(selected') : ~tickets[selected'[k]].embedding
        /\ \A j, k \in 1..Len(selected') : selected'[j] = selected'[k] => j = k

\* a pass of the loop adds the result of one ticket and leaves the loop
\* running, whether the ticket failed or not
LoopStep ==
    (bfPc = "embed" /\ results' # results) =>
        /\ Len(results') = Len(results) + 1
        /\ results'[Len(results')].id = selected[Len(results')]
        /\ selected' = selected
        /\ bfPc' = "embed"

\* C22: each update-embeddings call selects only tickets without an
\* embedding, at most 50 for POST and 10 for GET; it produces exactly one
\* result per selected ticket, in order, a failed ticket included, and goes
\* on with the remaining tickets; the response reports processed = number of
\* selected tickets = successful + failed results.
C22_OneResultPerTicket ==
    /\ [][SelectStep]_vars
    /\ [][LoopStep]_vars
    /\ [](bfPc = "embed" => Len(results) <= Len(selected))
    /\ [](Backfilled =>
            /\ bfResponse.processed = Len(selected)
            /\ Len(bfResponse.results) = Len(selected)
            /\ \A k \in 1..Len(selected) : bfResponse.results[k].id = selected[k]
            /\ bfResponse.processed = CountResults(bfResponse.results, TRUE)
                                      + CountResults(bfResponse.results, FALSE)
            /\ bfMethod = "POST" =>
                  /\ bfResponse.successful = CountResults(bfResponse.results, TRUE)
                  /\ bfResponse.failed = CountResults(bfResponse.results, FALSE)
                  /\ bfResponse.processed = bfResponse.successful + bfResponse.failed)

\* a POST call over more than 50 rows answered for 50 of them, with a failed
\* ticket followed by a successful one
C22_Witness ==
    /\ Backfilled
    /\ bfMethod = "POST"
    /\ Len(tickets) > POST_LIMIT
    /\ bfResponse.processed = POST_LIMIT
    /\ bfResponse.failed = 1
    /\ ~bfResponse.results[1].success
    /\ bfResponse.results[2].success

\* every row has an embedding
AllEmbedded == \A id \in 1..Len(tickets) : tickets[id].embedding

\* a call has answered that no row is left
ReportedNoneLeft == bfPc = "responded" /\ bfResponse = NoneLeft(bfMethod)

\* a step never selects a row that has an embedding, never stores an
\* embedding in such a row, and never removes one
KeepStep ==
    /\ \A id \in 1..Len(tickets) : tickets[id].embedding => tickets'[id].embedding
    /\ (bfPc = "fetch" /\ bfPc' = "embed") =>
           \A k \in 1..Len(selected') : ~tickets[selected'[k]].embedding
    /\ (bfPc = "embed" /\ tickets' # tickets) => ~tickets[Ticket].embedding

-----------------------------------------------------------------------------
(* Further properties of the classify-ticket route, checked under Spec *)

\* the search is at the embedding provider or at the neighbour search
AtProviders == pc \in { "generateEmbedding", "matchTickets" }

\* some row of the store has an embedding
SomeEmbeddedRow == \E i \in 1..Len(tickets) : tickets[i].embedding

\* each step of the search is entered from the step before it
OrderStep ==
    /\ (pc' = "checkExtension" /\ pc # "checkExtension") =>
           (pc = "checkTable" /\ Len(tickets) # 0)
    /\ (pc' = "createExtension") => pc = "checkExtension"
    /\ (pc' = "checkColumn" /\ pc # "checkColumn") =>
           pc \in { "checkExtension", "createExtension" }
    /\ (pc' = "addColumn") => pc = "checkColumn"
    /\ (pc' = "checkEmbeddings" /\ pc # "checkEmbeddings") =>
           pc \in { "checkColumn", "addColumn" }
    /\ (pc' = "generateEmbedding" /\ pc # "generateEmbedding") =>
           (pc = "checkEmbeddings" /\ SomeEmbeddedRow)
    /\ (pc' = "matchTickets" /\ pc # "matchTickets") => pc = "generateEmbedding"

\* C23: the embedding provider and the neighbour search are reached only
\* through the table check on a non-empty store, the extension and column
\* checks, and the query that found a row with an embedding; the store then
\* has the extension and the column; a search on an empty store or on a store
\* without an embedded row returns a failure and never reaches the provider.
C23_ChecksBeforeProviders ==
    /\ [][OrderStep]_vars
    /\ [](AtProviders => (Len(tickets) > 0 /\ extension /\ column /\ SomeEmbeddedRow))
    /\ []((pc = "combine" /\ ~SomeEmbeddedRow) => ~vectorResults.success)

\* the neighbour search ran and answered on a store with a single row, which
\* has an embedding
C23_Witness ==
    /\ pc = "combine"
    /\ vectorResults.success
    /\ Len(tickets) = 1
    /\ SomeEmbeddedRow
    /\ Len(vectorResults.similarTickets) = 1

\* a step of a classify-ticket request leaves every row as it is, and
\* changes the store only by creating the extension or the column
FrameStep ==
    /\ tickets' = tickets
    /\ (extension' # extension) => (pc = "createExtension" /\ extension')
    /\ (column' # column) => (pc = "addColumn" /\ column')

LabelledGroups == NeighbourLabels \ {NULL}

\* C28: when the search succeeded, all neighbours that carry a group carry
\* the same one, and that group is not the pattern primary group, the final
\* recommendation is that group with confidence 100 and source
\* "history-weighted", whatever the pattern confidence.
C28_UniformNeighboursWin ==
    (Answered /\ vectorResults.success /\ Cardinality(LabelledGroups) = 1
              /\ Primary.name \notin LabelledGroups)
        => /\ Final.group \in LabelledGroups
           /\ Final.confidence = 100
           /\ Final.source = "history-weighted"

\* two neighbours of one group, against a pattern result of confidence 100
\* for another group
C28_Witness ==
    /\ Answered
    /\ vectorResults.success
    /\ Len(vectorResults.similarTickets) = 2
    /\ LabelledGroups = { "Network Operations" }
    /\ Primary.name = "Security"
    /\ Primary.confidence = 100
    /\ Final.group = "Network Operations"
    /\ Final.confidence = 100

-----------------------------------------------------------------------------
(* Further properties of the chat route, checked under SpecChat *)

\* classifyTicket was called for this request and returned null
ClassificationFailed == "classifyTicket" \in invoked /\ IsNull(ticketClassification)

\* the classifyTicket step does not answer the request: whatever it returns,
\* the request goes on to the completion call
ClassifyStep ==
    chatPc = "classifyTicket" => (chatPc' = "completion" /\ chatResponse' = chatResponse)

\* C26: when classifyTicket fails (it returns null) the request goes on to
\* the completion call, which can succeed; the request is answered with an
\* error only when the completion call itself throws, and otherwise with a
\* reply of source "ai" and a null ticketClassification.
C26_ChatWithoutClassification ==
    /\ [][ClassifyStep]_vars
    /\ []((chatPc = "completion" /\ ClassificationFailed) => ENABLED Completion)
    /\ []((chatPc = "responded" /\ ClassificationFailed) =>
             /\ "chat.completions.create" \in invoked
             /\ chatResponse.status = 200 =>
                   /\ chatResponse.source = "ai"
                   /\ chatResponse.reply = "reply"
                   /\ IsNull(chatResponse.ticketClassification))

\* a request whose classification failed was answered by the completion
C26_Witness ==
    /\ chatPc = "responded"
    /\ ClassificationFailed
    /\ chatResponse.status = 200
    /\ chatResponse.source = "ai"
    /\ IsNull(chatResponse.ticketClassification)

\* the log of a session that has one: the system turn, and then nothing or
\* turns that end with an assistant turn
EndsWithAssistant(log) ==
    /\ log[1] = SystemTurn
    /\ \A k \in 2..Len(log) : log[k].role # "system"
    /\ Len(log) > 1 => log[Len(log)].role = "assistant"

\* C30: between chat requests the log of each session starts with the single
\* system turn and is otherwise empty or ends with an assistant turn (a
\* request answered with an error has added nothing to it).
C30_LogEndsWithAssistant ==
    ChatCompleted =>
        \A s \in Sessions : conversations[s] = <<>> \/ EndsWithAssistant(conversations[s])

-----------------------------------------------------------------------------
(* Properties of concurrent calls, checked under SpecHealing *)

\* call c has left the extension and column steps
Left(c) == At(c) \in { "queries", "failed" }

\* the schemas one call alone can leave behind, from the schema before
SingleCallEnds(before) ==
    { after \in [extension : BOOLEAN, column : BOOLEAN] :
          /\ before.extension => after.extension
          /\ before.column => after.column
          /\ after.column => after.extension }

\* a step of call c that does not end it with an exception
Proceeds(c) == H_Step(c) /\ callers'.of[c].at # "failed"

\* no step removes the extension or the column
CreatedStays ==
    /\ extension => extension'
    /\ column => column'

\* C24: for every interleaving of the extension and column steps of the
\* calls in flight, once all calls have left these steps the schema is one
\* that a single call could have left; the extension and the column are each
\* created by at most one call and never removed; and a call that has not
\* left the steps can always take its next step and go on, whatever the
\* other calls have created.
C24_ConcurrentHealing ==
    /\ [][CreatedStays]_vars
    /\ []((\A c \in CallerIds : Left(c)) =>
             [extension |-> extension, column |-> column] \in SingleCallEnds(callers.start))
    /\ [](\A x \in { "extension", "column" } :
             Cardinality({ c \in CallerIds : x \in callers.of[c].created }) <= 1)
    /\ [](column => extension)
    /\ [](\A c \in CallerIds : ~Left(c) => ENABLED Proceeds(c))

\* two calls ran the creation of the extension; one of them created it,
\* the other found it, and both went on; the column was created once
C24_Witness ==
    /\ ~callers.start.extension
    /\ \A c \in CallerIds : At(c) = "queries"
    /\ "extension" \in callers.of[1].created
    /\ "column" \in callers.of[2].created
    /\ callers.of[1].route # callers.of[2].route
    /\ extension /\ column
====
